---------------------------- MODULE Spec2Model ----------------------------
(***************************************************************************)
(* fs-proxy: a FUSE driver that exposes a configured virtual tree and      *)
(* redirects file reads to host files.                                     *)
(*                                                                         *)
(* The model follows src/src/inode.rs (node graph and identity table) and  *)
(* src/src/main.rs (the Filesystem callbacks, the tasks they spawn on the  *)
(* tokio runtime, and the open-file registry `Inner` behind a tokio        *)
(* Mutex).  The dispatcher (fuser's session loop) calls one callback at a  *)
(* time; every spawned task advances one await point per step, interleaved *)
(* freely with the dispatcher and with the other tasks.                    *)
(***************************************************************************)
EXTENDS Integers, Sequences, FiniteSets, TLC

(***************************************************************************)
(* Bounds of the model.                                                    *)
(***************************************************************************)
\* number of kernel requests the dispatcher hands to the callbacks
MaxRequests == 3

\* requests of the read-only specification of open and read
MaxReadRequests == 4

\* host files the driver can have opened: one per request at most
MaxFiles == IF MaxRequests < MaxReadRequests THEN MaxReadRequests ELSE MaxRequests

\* the `size` of the reads of the full specification
ReadSize == 1

(***************************************************************************)
(* Error codes of libc used by the callbacks.                              *)
(***************************************************************************)
ENOENT == "ENOENT"
EIO == "EIO"
EBADF == "EBADF"
ENFILE == "ENFILE"
EISDIR == "EISDIR"
ENOTDIR == "ENOTDIR"

(***************************************************************************)
(* Names.  Strings are ordered bytewise by the BTreeMap; NameOrder lists   *)
(* the names the model uses in that order.                                 *)
(***************************************************************************)
NameOrder == <<"a", "b", "c">>

NameRank(n) == CHOOSE i \in 1..Len(NameOrder) : NameOrder[i] = n

NameLt(x, y) == NameRank(x) < NameRank(y)

\* a request name that is not valid UTF-8 (name.to_str() is None)
NotUtf8 == "\\xff"

(***************************************************************************)
(* mapping.rs: the Mapping Description.  A Path is a File with the host    *)
(* path it redirects to, or a Folder with named children.                  *)
(***************************************************************************)
NoPaths == [n \in {} |-> 0]

PathFile(name, path) ==
  [type |-> "File", name |-> name, path |-> path, paths |-> NoPaths]

PathFolder(name, paths) ==
  [type |-> "Folder", name |-> name, path |-> "", paths |-> paths]

\* The mapping the driver is started with:  / { b -> /t/b, a/ { c -> /t/c } }
\* (the children of the root are given in the order b, a).
Mapping ==
  PathFolder("/",
    [n \in {"b", "a"} |->
       IF n = "b" THEN PathFile("b", "/t/b")
       ELSE PathFolder("a", [m \in {"c"} |-> PathFile("c", "/t/c")])])

(***************************************************************************)
(* inode.rs: INode.  An Rc<RefCell<INode>> is a pointer; the model's       *)
(* pointer to a node is the sequence of keys that leads to it from the     *)
(* root, and the heap maps pointers to INode values.                       *)
(***************************************************************************)
RECURSIVE PathAt(_, _)
PathAt(p, ptr) ==
  IF ptr = <<>> THEN p ELSE PathAt(p.paths[Head(ptr)], Tail(ptr))

\* BTreeMap iteration order: the keys in ascending order
RECURSIVE KeysInOrder(_)
KeysInOrder(S) ==
  IF S = {} THEN <<>>
  ELSE LET m == CHOOSE x \in S : \A y \in S \ {x} : NameLt(x, y)
       IN <<m>> \o KeysInOrder(S \ {m})

\* impl From<Path> for INode: ino and parent start at 0
INodeFrom(p, ptr) ==
  IF p.type = "File"
    THEN [kind |-> "File", ino |-> 0, parent |-> 0, name |-> p.name,
          target |-> p.path, entries |-> NoPaths]
    ELSE [kind |-> "Folder", ino |-> 0, parent |-> 0, name |-> p.name,
          target |-> "",
          entries |-> [n \in DOMAIN p.paths |-> Append(ptr, n)]]

RECURSIVE AllPtrs(_, _)
AllPtrs(p, ptr) ==
  {ptr} \cup UNION {AllPtrs(p.paths[n], Append(ptr, n)) : n \in DOMAIN p.paths}

HeapFrom(p) == [ptr \in AllPtrs(p, <<>>) |-> INodeFrom(PathAt(p, ptr), ptr)]

RECURSIVE FlatMapSeq(_, _, _)
RECURSIVE list_recursively(_, _)
\* INodeOps::list_recursively: the node, then its entries' lists in key order
list_recursively(heap, ptr) ==
  IF heap[ptr].kind = "File" THEN <<ptr>>
  ELSE <<ptr>> \o FlatMapSeq(heap, ptr, KeysInOrder(DOMAIN heap[ptr].entries))

FlatMapSeq(heap, ptr, keys) ==
  IF keys = <<>> THEN <<>>
  ELSE list_recursively(heap, heap[ptr].entries[Head(keys)])
         \o FlatMapSeq(heap, ptr, Tail(keys))

\* INodeOps::list_current: the entries' values in key order, nothing for a File
list_current(heap, ptr) ==
  IF heap[ptr].kind = "File" THEN <<>>
  ELSE LET keys == KeysInOrder(DOMAIN heap[ptr].entries)
       IN [i \in 1..Len(keys) |-> heap[ptr].entries[keys[i]]]

\* set_ino applied with the slot index itself: slot idx gets idx
set_inos_zero_based(heap, table) ==
  [ptr \in DOMAIN heap |->
     IF \E i \in 1..Len(table) : table[i] = ptr
       THEN [heap[ptr] EXCEPT !.ino = (CHOOSE i \in 1..Len(table) : table[i] = ptr) - 1]
       ELSE heap[ptr]]

\* INode::set_ino applied to every table slot: slot idx gets idx + 1
set_inos(heap, table) ==
  [ptr \in DOMAIN heap |->
     IF \E i \in 1..Len(table) : table[i] = ptr
       THEN [heap[ptr] EXCEPT !.ino = CHOOSE i \in 1..Len(table) : table[i] = ptr]
       ELSE heap[ptr]]

RECURSIVE auto_set_parent(_, _, _)
RECURSIVE auto_set_parent_entries(_, _, _)
\* INode::auto_set_parent: set this node's parent, then the entries' parent
\* to this node's ino
auto_set_parent(heap, ptr, parent) ==
  LET h1 == [heap EXCEPT ![ptr].parent = parent]
  IN IF h1[ptr].kind = "File" THEN h1
     ELSE auto_set_parent_entries(h1, ptr, KeysInOrder(DOMAIN h1[ptr].entries))

auto_set_parent_entries(heap, ptr, keys) ==
  IF keys = <<>> THEN heap
  ELSE auto_set_parent_entries(
         auto_set_parent(heap, heap[ptr].entries[Head(keys)], heap[ptr].ino),
         ptr, Tail(keys))

\* the table built with the parent pass before the ids are assigned
INodeTableFrom_parents_first(heap0) ==
  LET table == list_recursively(heap0, <<>>)
      heap1 == auto_set_parent(heap0, <<>>, 0)
      heap2 == set_inos(heap1, table)
  IN [heap |-> heap2, table |-> table, root |-> <<>>]

\* impl From<Rc<RefCell<INode>>> for INodeTable
INodeTableFrom(heap0) ==
  LET table == list_recursively(heap0, <<>>)
      heap1 == set_inos(heap0, table)
      heap2 == auto_set_parent(heap1, <<>>, 0)
  IN [heap |-> heap2, table |-> table, root |-> <<>>]


(***************************************************************************)
(* usize arithmetic of the table index `ino as usize - 1`.  With overflow  *)
(* checks compiled in (the dev profile) 0 - 1 panics; without them (the    *)
(* release profile) it wraps to usize::MAX.  USIZE_MAX stands for          *)
(* 2^64 - 1: any value that is no index of the table.                      *)
(***************************************************************************)
USIZE_MAX == 2147483647

None == [some |-> FALSE, ptr |-> <<>>]

Some(ptr) == [some |-> TRUE, ptr |-> ptr]

\* `ino as usize - 1` without overflow checks
wrapping_index(ino) == IF ino = 0 THEN USIZE_MAX ELSE ino - 1

\* Vec::get
table_get(tbl, idx) ==
  IF idx < Len(tbl.table) THEN Some(tbl.table[idx + 1]) ELSE None

\* INode::lookup
inode_lookup(tbl, ptr, name) ==
  IF tbl.heap[ptr].kind = "File" THEN None
  ELSE IF name \in DOMAIN tbl.heap[ptr].entries
         THEN Some(tbl.heap[ptr].entries[name])
         ELSE None

\* INodeTable::lookup
table_lookup(tbl, ino, name) ==
  LET slot == table_get(tbl, wrapping_index(ino))
  IN IF slot.some THEN inode_lookup(tbl, slot.ptr, name) ELSE None

\* INodeTable::get_by_ino
get_by_ino(tbl, ino) == table_get(tbl, wrapping_index(ino))

(***************************************************************************)
(* main.rs: attributes and replies.                                        *)
(***************************************************************************)
\* const HELLO_DIR_ATTR
HELLO_DIR_ATTR == [ino |-> 1, kind |-> "Directory", perm |-> "0o755", nlink |-> 2]

\* fn make_folder_attr
make_folder_attr(inode) ==
  [ino |-> inode.ino, kind |-> "Directory", perm |-> "0o755", nlink |-> 2]

\* MappingFS::getattr (the async helper) on success: the attributes of the
\* host file with the identity overridden by `ino`
host_attr(ino) == [ino |-> ino, kind |-> "Host", perm |-> "host", nlink |-> 0]

NoAttr == [ino |-> 0, kind |-> "", perm |-> "", nlink |-> 0]

ReplyError(errno) ==
  [kind |-> "error", errno |-> errno, attr |-> NoAttr, fh |-> 0, entries |-> <<>>,
   data |-> <<>>]

ReplyEntry(attr) ==
  [kind |-> "entry", errno |-> "", attr |-> attr, fh |-> 0, entries |-> <<>>,
   data |-> <<>>]

ReplyAttr(attr) ==
  [kind |-> "attr", errno |-> "", attr |-> attr, fh |-> 0, entries |-> <<>>,
   data |-> <<>>]

ReplyOpened(fh) ==
  [kind |-> "opened", errno |-> "", attr |-> NoAttr, fh |-> fh, entries |-> <<>>,
   data |-> <<>>]

ReplyData(data) ==
  [kind |-> "data", errno |-> "", attr |-> NoAttr, fh |-> 0, entries |-> <<>>,
   data |-> data]

ReplyOk ==
  [kind |-> "ok", errno |-> "", attr |-> NoAttr, fh |-> 0, entries |-> <<>>,
   data |-> <<>>]

ReplyDirectory(entries) ==
  [kind |-> "directory", errno |-> "", attr |-> NoAttr, fh |-> 0, entries |-> entries,
   data |-> <<>>]

(***************************************************************************)
(* MappingFS::readdir: the listing and the part of it a reply carries.     *)
(***************************************************************************)
\* the `files` vector: ".", then ".." when the parent resolves, then the
\* node's list_current(); each element is <<ino, kind, name>>
DirFiles(tbl, ptr) ==
  LET curr == tbl.heap[ptr]
      parent == get_by_ino(tbl, curr.parent)
      dot == <<[ino |-> curr.ino, kind |-> "Folder", name |-> "."]>>
      dotdot == IF parent.some
                  THEN <<[ino |-> tbl.heap[parent.ptr].ino, kind |-> "Folder",
                          name |-> ".."]>>
                  ELSE <<>>
      children == list_current(tbl.heap, ptr)
  IN dot \o dotdot
       \o [i \in 1..Len(children) |->
             [ino |-> tbl.heap[children[i]].ino,
              kind |-> tbl.heap[children[i]].kind,
              name |-> tbl.heap[children[i]].name]]

\* the loop of readdir with the cookie of entry i being i instead of i + 1
DirEntries_cookie_is_index(files, offset, cap) ==
  LET n == IF Len(files) - offset < 0 THEN 0
           ELSE IF Len(files) - offset < cap THEN Len(files) - offset ELSE cap
  IN [k \in 1..n |->
        [ino |-> files[offset + k].ino,
         offset |-> offset + k - 1,
         kind |-> IF files[offset + k].kind = "File" THEN "RegularFile"
                  ELSE "Directory",
         name |-> files[offset + k].name]]

\* the loop over files.iter().enumerate().skip(offset): entry i (0-based) is
\* added with cookie i + 1 until reply.add reports the sink full
DirEntries(files, offset, cap) ==
  LET n == IF Len(files) - offset < 0 THEN 0
           ELSE IF Len(files) - offset < cap THEN Len(files) - offset ELSE cap
  IN [k \in 1..n |->
        [ino |-> files[offset + k].ino,
         offset |-> offset + k,
         kind |-> IF files[offset + k].kind = "File" THEN "RegularFile"
                  ELSE "Directory",
         name |-> files[offset + k].name]]

(***************************************************************************)
(* The host files behind the leaves, and the arithmetic of read.  Lengths, *)
(* offsets and sizes are counted in blocks of 2^30 bytes, so that a u32    *)
(* holds the values below U32_MODULUS (2^32 bytes are 4 blocks) and        *)
(* `as u32` keeps a block count modulo U32_MODULUS.                        *)
(***************************************************************************)
U32_MODULUS == 4

\* the blocks of the host file at `target`
HostContent(target) ==
  IF target = "/t/b" THEN <<"b0", "b1", "b2", "b3", "b4">>
  ELSE IF target = "/t/c" THEN <<"c0">>
  ELSE <<>>

\* metadata.len()
HostLen(target) == Len(HostContent(target))

\* u64::saturating_sub
saturating_sub(a, b) == IF a < b THEN 0 ELSE a - b

\* `as u32` on a u64
as_u32(x) == x % U32_MODULUS

\* std::cmp::min
min(a, b) == IF a < b THEN a ELSE b

\* let read_size = min(size, file_size.saturating_sub(offset as u64) as u32)
read_size(size, file_size, offset) ==
  min(size, as_u32(saturating_sub(file_size, offset)))

\* read_exact fills a buffer of n blocks from the cursor, or fails at the end
\* of the file
read_exact_ok(content, pos, n) == n = 0 \/ pos + n <= Len(content)

read_exact_buf(content, pos, n) == SubSeq(content, pos + 1, pos + n)

(***************************************************************************)
(* State.                                                                  *)
(***************************************************************************)
VARIABLES
  overflow_checks,  \* build profile: whether `ino as usize - 1` panics on 0
  inode_table,      \* MappingFS::inode_table
  inner,            \* Inner: file_handles (fh -> file) and counter
  inner_lock,       \* tokio Mutex<Inner>: 0, or the request whose task holds the guard
  files,            \* host files opened by `open`: per file its target, the
                    \* number of Arc references, the holder of its Mutex, open or closed
  requests,         \* the requests dispatched so far, each with its task's
                    \* position, its locals and the replies sent on its reply object
  panicked          \* the dispatch thread panicked

vars == <<overflow_checks, inode_table, inner, inner_lock, files, requests, panicked>>

NoFile == [target |-> "", refs |-> 0, lock |-> 0, open |-> FALSE, pos |-> 0]

NoHandles == [h \in {} |-> 0]

Request(op, ino, name, fh, offset, cap) ==
  [op |-> op, ino |-> ino, name |-> name, fh |-> fh, offset |-> offset,
   cap |-> cap, pc |-> "dispatched", replies |-> <<>>,
   size |-> 0,       \* the `size` of a read
   task_ino |-> 0,   \* the `ino` a spawned stat task captured
   file |-> 0,       \* the file a task holds: the opened file, file_clone, _file
   file_size |-> 0]  \* read's local file_size

\* a reply method consumes the reply object of request r
Replied(req, reply) == [req EXCEPT !.replies = Append(@, reply), !.pc = "done"]

Init ==
  /\ overflow_checks \in BOOLEAN
  /\ inode_table = INodeTableFrom(HeapFrom(Mapping))
  /\ inner = [file_handles |-> NoHandles, counter |-> 0]
  /\ inner_lock = 0
  /\ files = [f \in 1..MaxFiles |-> NoFile]
  /\ requests = <<>>
  /\ panicked = FALSE

\* the dispatch thread is there to call a callback
CanDispatch == ~panicked

\* the kernel has sent fewer than n requests
Room(n) == Len(requests) < n

\* `ino as usize - 1` panics (attempt to subtract with overflow)
IndexPanics(ino) == overflow_checks /\ ino = 0

\* the callback panics before it calls a reply method: the unwinding drops the
\* reply object, and an unsent reply answers EIO when it is dropped (fuser's
\* Drop for its reply types); the dispatch thread is gone
Panic(req) ==
  /\ requests' = Append(requests, [Replied(req, ReplyError(EIO)) EXCEPT !.pc = "panicked"])
  /\ panicked' = TRUE

\* the callback replies and returns
ReplyNow(req, reply) ==
  /\ requests' = Append(requests, Replied(req, reply))
  /\ panicked' = panicked

\* the callback runs the task to its first lock on the dispatch thread
\* (block_on): it returns only once the registry lock is free
Spawn_block_on(req, pc) ==
  /\ inner_lock = 0
  /\ requests' = Append(requests, [req EXCEPT !.pc = pc])
  /\ panicked' = panicked

\* the callback spawns a task on the runtime and returns
Spawn(req, pc) ==
  /\ requests' = Append(requests, [req EXCEPT !.pc = pc])
  /\ panicked' = panicked

(***************************************************************************)
(* The Filesystem callbacks, run by the dispatch thread.                   *)
(***************************************************************************)
\* MappingFS::lookup
Lookup(parent, name) ==
  LET req == Request("lookup", parent, name, 0, 0, 0)
      res == table_lookup(inode_table, parent, name)
  IN /\ CanDispatch
     /\ IF name = NotUtf8 THEN ReplyNow(req, ReplyError(ENOENT))
        ELSE IF IndexPanics(parent) THEN Panic(req)
        ELSE IF ~res.some THEN ReplyNow(req, ReplyError(ENOENT))
        ELSE IF inode_table.heap[res.ptr].kind = "File"
          THEN Spawn([req EXCEPT !.task_ino = inode_table.heap[res.ptr].ino], "stat")
          ELSE ReplyNow(req, ReplyEntry(make_folder_attr(inode_table.heap[res.ptr])))
     /\ UNCHANGED <<overflow_checks, inode_table, inner, inner_lock, files>>

\* MappingFS::getattr (the callback)
Getattr(ino) ==
  LET req == Request("getattr", ino, "", 0, 0, 0)
      res == get_by_ino(inode_table, ino)
  IN /\ CanDispatch
     /\ IF IndexPanics(ino) THEN Panic(req)
        ELSE IF ~res.some THEN ReplyNow(req, ReplyError(ENOENT))
        ELSE IF inode_table.heap[res.ptr].kind = "File"
          THEN Spawn([req EXCEPT !.task_ino = ino], "stat")
          ELSE ReplyNow(req, ReplyAttr(HELLO_DIR_ATTR))
     /\ UNCHANGED <<overflow_checks, inode_table, inner, inner_lock, files>>

\* the error open answers a Folder with
OpenFolderErrno == ENFILE

\* MappingFS::open
Open(ino) ==
  LET req == Request("open", ino, "", 0, 0, 0)
      res == get_by_ino(inode_table, ino)
  IN /\ CanDispatch
     /\ IF IndexPanics(ino) THEN Panic(req)
        ELSE IF ~res.some THEN ReplyNow(req, ReplyError(ENOENT))
        ELSE IF inode_table.heap[res.ptr].kind # "File"
          THEN ReplyNow(req, ReplyError(OpenFolderErrno))
          ELSE Spawn(req, "open_file")
     /\ UNCHANGED <<overflow_checks, inode_table, inner, inner_lock, files>>

\* MappingFS::read: the callback only spawns
Read(fh, offset, size) ==
  /\ CanDispatch
  /\ Spawn([Request("read", 0, "", fh, offset, 0) EXCEPT !.size = size], "read_lock")
  /\ UNCHANGED <<overflow_checks, inode_table, inner, inner_lock, files>>

\* MappingFS::release: the callback only spawns
Release(fh) ==
  /\ CanDispatch
  /\ Spawn(Request("release", 0, "", fh, 0, 0), "release_lock")
  /\ UNCHANGED <<overflow_checks, inode_table, inner, inner_lock, files>>

\* MappingFS::readdir
Readdir(ino, offset, cap) ==
  LET req == Request("readdir", ino, "", 0, offset, cap)
      res == get_by_ino(inode_table, ino)
  IN /\ CanDispatch
     /\ IF IndexPanics(ino) THEN Panic(req)
        ELSE IF ~res.some THEN ReplyNow(req, ReplyError(ENOENT))
        ELSE IF IndexPanics(inode_table.heap[res.ptr].parent) THEN Panic(req)
        ELSE ReplyNow(req,
               ReplyDirectory(DirEntries(DirFiles(inode_table, res.ptr), offset, cap)))
     /\ UNCHANGED <<overflow_checks, inode_table, inner, inner_lock, files>>

(***************************************************************************)
(* The spawned tasks.  Each action is one task running from one await      *)
(* point to the next; `ok` is the outcome of the host I/O it awaited.      *)
(***************************************************************************)
AtPc(r, pc) == ~panicked /\ r \in 1..Len(requests) /\ requests[r].pc = pc

\* inc_counter with the next id taken from the number of live handles
inc_counter_from_len(inn) ==
  [inn EXCEPT !.counter = Cardinality(DOMAIN inn.file_handles) + 1]

\* an inc_counter that skips an id
inc_counter_twice(inn) == [inn EXCEPT !.counter = @ + 2]

\* Inner::inc_counter
inc_counter(inn) == [inn EXCEPT !.counter = @ + 1]

\* an insert that is lost: the map stays as it was
insert_nothing(handles, fh, file) == handles

\* BTreeMap::insert
insert(handles, fh, file) ==
  [h \in DOMAIN handles \cup {fh} |-> IF h = fh THEN file ELSE handles[h]]

\* BTreeMap::get(..).is_some() / what remove(..) returns being Some
contains_key(handles, fh) == fh \in DOMAIN handles

\* a remove that leaves the entry in the map
remove_keeps_entry(handles, fh) == handles

\* BTreeMap::remove
remove(handles, fh) == [h \in DOMAIN handles \ {fh} |-> handles[h]]

\* dropping one Arc<Mutex<File>>: the host file closes with the last reference
drop_arc(fs, f) ==
  [fs EXCEPT ![f].refs = @ - 1, ![f].open = (fs[f].refs - 1 > 0)]

\* the stat task with an Err arm that replies EIO and then falls through to
\* the Ok arm's reply
Stat_err_falls_through(r, ok) ==
  /\ AtPc(r, "stat")
  /\ requests' = [requests EXCEPT ![r] =
       Replied(IF ok THEN @ ELSE Replied(@, ReplyError(EIO)),
               IF @.op = "lookup" THEN ReplyEntry(host_attr(@.task_ino))
               ELSE ReplyAttr(host_attr(@.task_ino)))]
  /\ UNCHANGED <<overflow_checks, inode_table, inner, inner_lock, files, panicked>>

\* the task spawned by lookup and getattr: Self::getattr(ino, target).await
\* (File::open and metadata on the host), then the reply
Stat(r, ok) ==
  /\ AtPc(r, "stat")
  /\ requests' = [requests EXCEPT ![r] =
       Replied(@, IF ~ok THEN ReplyError(EIO)
                  ELSE IF @.op = "lookup" THEN ReplyEntry(host_attr(@.task_ino))
                  ELSE ReplyAttr(host_attr(@.task_ino)))]
  /\ UNCHANGED <<overflow_checks, inode_table, inner, inner_lock, files, panicked>>

\* open's task: File::open(&binding).await
OpenFile(r, ok) ==
  /\ AtPc(r, "open_file")
  /\ IF ok
       THEN /\ files' = [files EXCEPT ![r] =
                 [target |-> inode_table.heap[get_by_ino(inode_table, requests[r].ino).ptr].target,
                  refs |-> 1, lock |-> 0, open |-> TRUE, pos |-> 0]]
            /\ requests' = [requests EXCEPT ![r].file = r, ![r].pc = "open_lock"]
       ELSE /\ files' = files
            /\ requests' = [requests EXCEPT ![r] = Replied(@, ReplyError(EIO))]
  /\ UNCHANGED <<overflow_checks, inode_table, inner, inner_lock, panicked>>

\* open's task: send_inner.lock().await, inc_counter, file_handles.insert
OpenInsert(r) ==
  /\ AtPc(r, "open_lock")
  /\ inner_lock = 0
  /\ inner_lock' = r
  /\ LET inn == inc_counter(inner)
     IN /\ inner' = [inn EXCEPT !.file_handles = insert(@, inn.counter, requests[r].file)]
        /\ requests' = [requests EXCEPT ![r].fh = inn.counter, ![r].pc = "open_reply"]
  /\ UNCHANGED <<overflow_checks, inode_table, files, panicked>>

\* open's task: reply.opened(fh, 0), then the guard goes out of scope
OpenReply(r) ==
  /\ AtPc(r, "open_reply")
  /\ inner_lock' = 0
  /\ requests' = [requests EXCEPT ![r] = Replied(@, ReplyOpened(@.fh))]
  /\ UNCHANGED <<overflow_checks, inode_table, inner, files, panicked>>

\* a get that finds the file of the handle opened last
get_latest(handles, fh) ==
  handles[CHOOSE h \in DOMAIN handles : \A g \in DOMAIN handles : g <= h]

\* BTreeMap::get
get(handles, fh) == handles[fh]

\* SeekFrom::Start(offset) on the file's cursor
seek(fs, f, offset) == [fs EXCEPT ![f].pos = offset]

\* read answering an unregistered handle the way release does
ReadMissingErrno_as_release == ENOENT

\* the error read answers an unregistered handle with
ReadMissingErrno == EBADF

\* the registry guard dropped as soon as the handle is found
ReadGuardDroppedAfterGet(r) == 0

\* the registry guard a read holds on after it found its handle
ReadGuardAfterGet(r) == r

\* read's task: send_inner.lock().await and file_handles.get(&_fh)
ReadLock(r) ==
  /\ AtPc(r, "read_lock")
  /\ inner_lock = 0
  /\ IF contains_key(inner.file_handles, requests[r].fh)
       THEN LET f == get(inner.file_handles, requests[r].fh)
            IN /\ inner_lock' = ReadGuardAfterGet(r)
               /\ files' = [files EXCEPT ![f].refs = @ + 1]
               /\ requests' = [requests EXCEPT ![r].file = f, ![r].pc = "read_file_lock"]
       ELSE /\ inner_lock' = 0
            /\ files' = files
            /\ requests' = [requests EXCEPT ![r] = Replied(@, ReplyError(ReadMissingErrno))]
  /\ UNCHANGED <<overflow_checks, inode_table, inner, panicked>>

\* read's task: file_clone.lock().await
ReadFileLock(r) ==
  /\ AtPc(r, "read_file_lock")
  /\ files[requests[r].file].lock = 0
  /\ files' = [files EXCEPT ![requests[r].file].lock = r]
  /\ requests' = [requests EXCEPT ![r].pc = "read_metadata"]
  /\ UNCHANGED <<overflow_checks, inode_table, inner, inner_lock, panicked>>

\* read's task returns: the reply is sent and the file guard, file_clone and the
\* registry guard go out of scope; fs is `files` after the step's host I/O
ReadReturn(r, reply, fs) ==
  /\ requests' = [requests EXCEPT ![r] = Replied(@, reply)]
  /\ files' = drop_arc([fs EXCEPT ![requests[r].file].lock = 0], requests[r].file)
  /\ inner_lock' = IF inner_lock = r THEN 0 ELSE inner_lock

\* file.metadata().await, file_size = metadata.len()
ReadMetadata(r, ok) ==
  /\ AtPc(r, "read_metadata")
  /\ IF ~ok THEN ReadReturn(r, ReplyError(EIO), files)
     ELSE /\ requests' = [requests EXCEPT
               ![r].file_size = HostLen(files[requests[r].file].target),
               ![r].pc = "read_seek"]
          /\ UNCHANGED <<files, inner_lock>>
  /\ UNCHANGED <<overflow_checks, inode_table, inner, panicked>>

\* file.seek(SeekFrom::Start(offset as u64)).await
ReadSeek(r, ok) ==
  /\ AtPc(r, "read_seek")
  /\ IF ~ok THEN ReadReturn(r, ReplyError(EIO), files)
     ELSE /\ requests' = [requests EXCEPT ![r].pc = "read_exact"]
          /\ files' = seek(files, requests[r].file, requests[r].offset)
          /\ inner_lock' = inner_lock
  /\ UNCHANGED <<overflow_checks, inode_table, inner, panicked>>

\* let mut buf = vec![0; read_size as usize]; file.read_exact(&mut buf).await
\* and reply.data(&buf)
ReadExact(r, ok) ==
  /\ AtPc(r, "read_exact")
  /\ LET req == requests[r]
         f == req.file
         content == HostContent(files[f].target)
         n == read_size(req.size, req.file_size, req.offset)
     IN IF ok /\ read_exact_ok(content, files[f].pos, n)
          THEN ReadReturn(r, ReplyData(read_exact_buf(content, files[f].pos, n)),
                          [files EXCEPT ![f].pos = @ + n])
          ELSE ReadReturn(r, ReplyError(EIO), files)
  /\ UNCHANGED <<overflow_checks, inode_table, inner, panicked>>

\* the error release answers an unregistered handle with
ReleaseMissingErrno == ENOENT

\* release's task: send_inner.lock().await and file_handles.remove(&fh)
ReleaseLock(r) ==
  /\ AtPc(r, "release_lock")
  /\ inner_lock = 0
  /\ IF contains_key(inner.file_handles, requests[r].fh)
       THEN /\ inner_lock' = r
            /\ inner' = [inner EXCEPT !.file_handles = remove(@, requests[r].fh)]
            /\ requests' = [requests EXCEPT
                 ![r].file = inner.file_handles[requests[r].fh],
                 ![r].pc = "release_reply"]
       ELSE /\ inner_lock' = 0
            /\ inner' = inner
            /\ requests' = [requests EXCEPT ![r] = Replied(@, ReplyError(ReleaseMissingErrno))]
  /\ UNCHANGED <<overflow_checks, inode_table, files, panicked>>

\* release's task: reply.ok()
ReleaseReply(r) ==
  /\ AtPc(r, "release_reply")
  /\ requests' = [requests EXCEPT ![r] = [Replied(@, ReplyOk) EXCEPT !.pc = "release_drop"]]
  /\ UNCHANGED <<overflow_checks, inode_table, inner, inner_lock, files, panicked>>

\* release's task: the end of the block drops _file and the registry guard
ReleaseDrop(r) ==
  /\ AtPc(r, "release_drop")
  /\ files' = drop_arc(files, requests[r].file)
  /\ inner_lock' = 0
  /\ requests' = [requests EXCEPT ![r].pc = "done"]
  /\ UNCHANGED <<overflow_checks, inode_table, inner, panicked>>

(***************************************************************************)
(* Inputs of the requests and the next-state relation.                     *)
(***************************************************************************)
\* largest readdir offset the kernel passes
MaxOffset == 1

\* entries the reply sink of a readdir takes before it reports full
SinkCap == 4

Inos == 0..(Len(inode_table.table) + 1)

Names == {"a", "b", "c", NotUtf8}

\* the handle ids issued so far and the next one, which was never issued
Fhs == 1..(inner.counter + 1)

Tasks == 1..Len(requests)

Next ==
  \/ \E parent \in Inos, name \in Names : Room(MaxRequests) /\ Lookup(parent, name)
  \/ \E ino \in Inos : Room(MaxRequests) /\ Getattr(ino)
  \/ \E ino \in Inos : Room(MaxRequests) /\ Open(ino)
  \/ \E fh \in Fhs : Room(MaxRequests) /\ Read(fh, 0, ReadSize)
  \/ \E fh \in Fhs : Room(MaxRequests) /\ Release(fh)
  \/ \E ino \in Inos, offset \in 0..MaxOffset : Room(MaxRequests) /\ Readdir(ino, offset, SinkCap)
  \/ \E r \in Tasks, ok \in BOOLEAN : Stat(r, ok)
  \/ \E r \in Tasks, ok \in BOOLEAN : OpenFile(r, ok)
  \/ \E r \in Tasks : OpenInsert(r)
  \/ \E r \in Tasks : OpenReply(r)
  \/ \E r \in Tasks : ReadLock(r)
  \/ \E r \in Tasks : ReadFileLock(r)
  \/ \E r \in Tasks, ok \in BOOLEAN : ReadMetadata(r, ok)
  \/ \E r \in Tasks, ok \in BOOLEAN : ReadSeek(r, ok)
  \/ \E r \in Tasks, ok \in BOOLEAN : ReadExact(r, ok)
  \/ \E r \in Tasks : ReleaseLock(r)
  \/ \E r \in Tasks : ReleaseReply(r)
  \/ \E r \in Tasks : ReleaseDrop(r)

Spec == Init /\ [][Next]_vars

\* a step of some spawned task
TaskStep ==
  \/ \E r \in Tasks, ok \in BOOLEAN : Stat(r, ok)
  \/ \E r \in Tasks, ok \in BOOLEAN : OpenFile(r, ok)
  \/ \E r \in Tasks : OpenInsert(r)
  \/ \E r \in Tasks : OpenReply(r)
  \/ \E r \in Tasks : ReadLock(r)
  \/ \E r \in Tasks : ReadFileLock(r)
  \/ \E r \in Tasks, ok \in BOOLEAN : ReadMetadata(r, ok)
  \/ \E r \in Tasks, ok \in BOOLEAN : ReadSeek(r, ok)
  \/ \E r \in Tasks, ok \in BOOLEAN : ReadExact(r, ok)
  \/ \E r \in Tasks : ReleaseLock(r)
  \/ \E r \in Tasks : ReleaseReply(r)
  \/ \E r \in Tasks : ReleaseDrop(r)

\* the runtime keeps running the tasks that can run, and every host operation
\* a task awaits completes (with Ok or Err)
FairSpec == Spec /\ WF_vars(TaskStep)

\* open, read and release alone: the requests that use the registry
HandleNext ==
  \/ \E ino \in Inos : Room(MaxRequests) /\ Open(ino)
  \/ \E fh \in Fhs : Room(MaxRequests) /\ Read(fh, 0, ReadSize)
  \/ \E fh \in Fhs : Room(MaxRequests) /\ Release(fh)
  \/ \E r \in Tasks, ok \in BOOLEAN : OpenFile(r, ok)
  \/ \E r \in Tasks : OpenInsert(r)
  \/ \E r \in Tasks : OpenReply(r)
  \/ \E r \in Tasks : ReadLock(r)
  \/ \E r \in Tasks : ReadFileLock(r)
  \/ \E r \in Tasks, ok \in BOOLEAN : ReadMetadata(r, ok)
  \/ \E r \in Tasks, ok \in BOOLEAN : ReadSeek(r, ok)
  \/ \E r \in Tasks, ok \in BOOLEAN : ReadExact(r, ok)
  \/ \E r \in Tasks : ReleaseLock(r)
  \/ \E r \in Tasks : ReleaseReply(r)
  \/ \E r \in Tasks : ReleaseDrop(r)

HandleSpec == Init /\ [][HandleNext]_vars

(***************************************************************************)
(* What the kernel has seen, read off the replies alone.                   *)
(***************************************************************************)
Reqs == 1..Len(requests)

OpsOf(op) == {r \in Reqs : requests[r].op = op}

\* handle id h was carried by the reply of a completed open
Returned(h) ==
  \E r \in OpsOf("open") : requests[r].replies = <<ReplyOpened(h)>>

\* a release of h took the entry out of the registry
Removed(h) ==
  \E r \in OpsOf("release") : requests[r].fh = h /\ requests[r].file # 0

\* h was returned by a completed open and not yet removed by a release
Live(h) == Returned(h) /\ ~Removed(h)

\* request r gets a reply in this step
RepliesNow(r) == Len(requests'[r].replies) > Len(requests[r].replies)

LastReply(req) == req.replies[Len(req.replies)]

\* the task of r leaves position pc in this step
Leaves(r, pc) == requests[r].pc = pc /\ requests'[r].pc # pc

(***************************************************************************)
(* C1: a read is answered with data or a host I/O failure only if its      *)
(* handle id is in the registry when the read takes the registry's lock    *)
(* (returned by a completed open, not yet removed by a release); a read of *)
(* any other handle id, never issued or already released, is answered      *)
(* EBADF.                                                                  *)
(***************************************************************************)
C1_ReadAnswer ==
  [][\A r \in OpsOf("read") :
       /\ Leaves(r, "read_lock") =>
            IF Live(requests[r].fh)
              THEN requests'[r].replies = <<>> /\ requests'[r].pc = "read_file_lock"
              ELSE requests'[r].replies = <<ReplyError(EBADF)>>
       /\ RepliesNow(r) =>
            IF Live(requests[r].fh)
              THEN LastReply(requests'[r]).kind = "data"
                   \/ LastReply(requests'[r]) = ReplyError(EIO)
              ELSE LastReply(requests'[r]) = ReplyError(EBADF)]_vars

\* a read of a handle that an open returned and a release removed was answered EBADF
C1_Witness ==
  \E r \in OpsOf("read") :
    /\ requests[r].replies = <<ReplyError(EBADF)>>
    /\ Returned(requests[r].fh)
    /\ Removed(requests[r].fh)

(***************************************************************************)
(* C2: no two opens are answered with the same handle id: the id an open   *)
(* takes inside the exclusive section is larger than every id taken before *)
(* it, and is never an id that a release has freed.                        *)
(***************************************************************************)
C2_FreshHandleIds ==
  [][\A r \in OpsOf("open") :
       (requests[r].fh = 0 /\ requests'[r].fh # 0) =>
         /\ \A q \in OpsOf("open") \ {r} :
              requests[q].fh # 0 => requests'[r].fh > requests[q].fh
         /\ \A q \in OpsOf("release") :
              requests[q].file # 0 => requests'[r].fh # requests[q].fh
         /\ \A q \in OpsOf("open") \ {r} :
              requests'[q].replies # <<ReplyOpened(requests'[r].fh)>>]_vars

\* an open was answered with handle 2 after handle 1 had been released
C2_Witness ==
  /\ Returned(2)
  /\ Returned(1)
  /\ Removed(1)

(***************************************************************************)
(* C5: a read and a release of the same handle do not interleave: while a  *)
(* read that found its handle is between its lookup and its reply, the     *)
(* handle is still registered with the file the read works on, and no      *)
(* release has removed it.                                                 *)
(***************************************************************************)
ReadMidOperation ==
  {r \in OpsOf("read") :
     requests[r].pc \in {"read_file_lock", "read_metadata", "read_seek", "read_exact"}}

C5_ReadReleaseAtomic ==
  \A r \in ReadMidOperation :
    /\ contains_key(inner.file_handles, requests[r].fh)
    /\ inner.file_handles[requests[r].fh] = requests[r].file
    /\ ~Removed(requests[r].fh)
    /\ files[requests[r].file].open

\* a read is in its host I/O while a release of the same handle waits for the lock
C5_Witness ==
  \E r \in ReadMidOperation, q \in OpsOf("release") :
    /\ requests[r].pc = "read_seek"
    /\ requests[q].fh = requests[r].fh
    /\ requests[q].pc = "release_lock"

(***************************************************************************)
(* C6: of the releases of one handle id, exactly one removes the entry and *)
(* is answered with success: a release that takes the lock while the id is *)
(* live succeeds, every other one (the id released before, or never        *)
(* issued) is answered with an error and changes nothing.                  *)
(***************************************************************************)
\* the releases of h that succeeded
Succeeded(h) == {r \in OpsOf("release") : requests[r].fh = h /\ requests[r].file # 0}

C6_ReleaseOnce ==
  [][\A r \in OpsOf("release") :
       LET h == requests[r].fh
       IN /\ Cardinality(Succeeded(h))' <= 1
          /\ Leaves(r, "release_lock") =>
               IF Live(h)
                 THEN /\ Succeeded(h)' = {r}
                      /\ ~contains_key(inner'.file_handles, h)
                      /\ requests'[r].replies = <<>>
                 ELSE /\ requests'[r].file = 0
                      /\ requests'[r].replies = <<ReplyError(ReleaseMissingErrno)>>
                      /\ inner' = inner
          /\ RepliesNow(r) =>
               /\ Len(requests'[r].replies) = 1
               /\ IF r \in Succeeded(h)
                    THEN LastReply(requests'[r]) = ReplyOk
                    ELSE LastReply(requests'[r]).kind = "error"]_vars

\* two releases of a handle an open returned were answered: one ok, one error
C6_Witness ==
  \E r, q \in OpsOf("release") :
    /\ requests[r].fh = requests[q].fh
    /\ Returned(requests[r].fh)
    /\ requests[r].replies = <<ReplyOk>>
    /\ requests[q].pc = "done"
    /\ requests[q].replies = <<ReplyError(ReleaseMissingErrno)>>

(***************************************************************************)
(* C3: the reply object of every request is used exactly once on every     *)
(* path.  No request ever has two replies; a request whose callback or     *)
(* task has returned (or whose callback panicked) has exactly one; a task  *)
(* still on its way has none yet; and, the runtime running the tasks and   *)
(* the host completing what they await, again and again every request     *)
(* dispatched so far has got its reply, for as long as the process lives.  *)
(***************************************************************************)
RepliedOnce(req) ==
  /\ Len(req.replies) <= 1
  /\ req.pc \in {"done", "panicked", "release_drop"} <=> Len(req.replies) = 1

HostIoPcs == {"read_metadata", "read_seek", "read_exact"}

\* positions at which a task awaits the registry's lock
LockWaitPcs == {"open_lock", "read_lock", "release_lock"}

C4_NoWaitBehindHostIo ==
  \A r, q \in Reqs :
    ~ /\ inner_lock = r
      /\ requests[r].pc \in HostIoPcs
      /\ requests[q].pc \in LockWaitPcs
      /\ requests[q].fh # requests[r].fh

(***************************************************************************)
(* C7: a release of a handle id that is not registered is answered EBADF,  *)
(* the code a read of an unregistered handle id gets.                      *)
(***************************************************************************)
C7_ReleaseUnknownIsEBADF ==
  \A r \in OpsOf("release") :
    (requests[r].pc = "done" /\ requests[r].file = 0)
      => requests[r].replies = <<ReplyError(ReadMissingErrno)>>

(***************************************************************************)
(* C8: open of a Folder is answered at once with the is-a-directory error, *)
(* spawns nothing, takes no handle id and adds no registry entry.          *)
(***************************************************************************)
\* ino is the id of a node of the given kind
ResolvesTo(ino, kind) ==
  /\ ino \in 1..Len(inode_table.table)
  /\ inode_table.heap[inode_table.table[ino]].kind = kind

C8_OpenFolderIsADirectory ==
  \A r \in OpsOf("open") :
    ResolvesTo(requests[r].ino, "Folder") =>
      /\ requests[r].pc \in {"done", "panicked"}
      /\ requests[r].replies = <<ReplyError(EISDIR)>>
      /\ requests[r].fh = 0
      /\ files[r] = NoFile

(***************************************************************************)
(* C9: readdir of a Leaf is answered with the not-a-directory error for    *)
(* every offset, never with a listing.                                     *)
(***************************************************************************)
C9_ReaddirLeafNotADirectory ==
  \A r \in OpsOf("readdir") :
    ResolvesTo(requests[r].ino, "File") =>
      requests[r].replies = <<ReplyError(ENOTDIR)>>

(***************************************************************************)
(* C10: every attribute reply about a node carries that node's id: the     *)
(* attributes of getattr(id) carry id, and the entry of lookup(parent,     *)
(* name) carries the id of the child of parent with that name.             *)
(***************************************************************************)
\* the nodes whose parent is `parent` and whose name is `name`
Children(parent, name) ==
  {p \in DOMAIN inode_table.heap :
     inode_table.heap[p].parent = parent /\ inode_table.heap[p].name = name}

C10_ReplyIdentity ==
  \A r \in Reqs :
    /\ (requests[r].op = "getattr" /\ requests[r].replies # <<>>
          /\ requests[r].replies[1].kind = "attr")
         => requests[r].replies[1].attr.ino = requests[r].ino
    /\ (requests[r].op = "lookup" /\ requests[r].replies # <<>>
          /\ requests[r].replies[1].kind = "entry")
         => \E p \in Children(requests[r].ino, requests[r].name) :
              requests[r].replies[1].attr.ino = inode_table.heap[p].ino

(***************************************************************************)
(* The node graph under several mappings.  GraphSpec starts the driver     *)
(* with one of the mappings below and lets the kernel list one directory   *)
(* page by page (each readdir after the first passes the cookie of the     *)
(* last entry it was given); LookupSpec starts it the same way and lets    *)
(* the kernel look names up.                                               *)
(***************************************************************************)
\* / { a/ { b/ { a -> /t/b }, c -> /t/c }, c -> /t/c }
DeepMapping ==
  PathFolder("/",
    [n \in {"c", "a"} |->
       IF n = "c" THEN PathFile("c", "/t/c")
       ELSE PathFolder("a",
              [m \in {"c", "b"} |->
                 IF m = "c" THEN PathFile("c", "/t/c")
                 ELSE PathFolder("b", [k \in {"a"} |-> PathFile("a", "/t/b")])])])

\* / { b -> /t/b, a -> /t/c, c/ { } }: three children given in the order b, a, c
WideMapping ==
  PathFolder("/",
    [n \in {"b", "a", "c"} |->
       IF n = "b" THEN PathFile("b", "/t/b")
       ELSE IF n = "a" THEN PathFile("a", "/t/c")
       ELSE PathFolder("c", NoPaths)])

\* a mapping whose root is a File
LeafMapping == PathFile("/", "/t/b")

Mappings == {Mapping, DeepMapping, WideMapping, LeafMapping}

\* readdir requests of one paginated listing
MaxPages == 5

\* largest capacity of the reply sink of a readdir: more than any listing has
MaxCap == 5

\* lookups the kernel sends
MaxLookups == 2

InitGraph ==
  /\ overflow_checks \in BOOLEAN
  /\ inode_table \in {INodeTableFrom(HeapFrom(m)) : m \in Mappings}
  /\ inner = [file_handles |-> NoHandles, counter |-> 0]
  /\ inner_lock = 0
  /\ files = [f \in 1..MaxFiles |-> NoFile]
  /\ requests = <<>>
  /\ panicked = FALSE

\* the last readdir the kernel sent
LastDir ==
  requests[CHOOSE r \in OpsOf("readdir") : \A q \in OpsOf("readdir") : q <= r]

\* the kernel goes on with a listing as long as the last page had entries
MorePages ==
  /\ OpsOf("readdir") # {}
  /\ LastDir.replies # <<>>
  /\ LastReply(LastDir).entries # <<>>

\* the cookie of the last entry the kernel was given
LastCookie == LastReply(LastDir).entries[Len(LastReply(LastDir).entries)].offset

GraphNext ==
  \/ \E ino \in Inos, cap \in 1..MaxCap :
       OpsOf("readdir") = {} /\ Readdir(ino, 0, cap)
  \/ Room(MaxPages) /\ MorePages
       /\ Readdir(LastDir.ino, LastCookie, LastDir.cap)

GraphSpec == InitGraph /\ [][GraphNext]_vars

LookupNext ==
  \/ \E parent \in Inos, name \in Names : Room(MaxLookups) /\ Lookup(parent, name)
  \/ \E r \in Tasks, ok \in BOOLEAN : Stat(r, ok)

LookupSpec == InitGraph /\ [][LookupNext]_vars

(***************************************************************************)
(* C11: readdir(id, 0) of a folder into a sink that takes the whole        *)
(* listing is answered with ".", carrying the folder's id, then ".."       *)
(* carrying the parent's id when the folder is not the root (the listing   *)
(* of the root has no ".." and is a success all the same), then the        *)
(* children in ascending order of their names; entry k has cookie k.       *)
(***************************************************************************)
\* the pointer of the folder that holds the node at ptr
ParentPtr(ptr) == SubSeq(ptr, 1, Len(ptr) - 1)

\* the listing of the folder at ptr as the claim words it
Listing(ptr) ==
  LET heap == inode_table.heap
      keys == KeysInOrder(DOMAIN heap[ptr].entries)
      head == <<[ino |-> heap[ptr].ino, kind |-> "Directory", name |-> "."]>>
                \o (IF ptr = <<>> THEN <<>>
                    ELSE <<[ino |-> heap[ParentPtr(ptr)].ino, kind |-> "Directory",
                            name |-> ".."]>>)
      all == head \o [i \in 1..Len(keys) |->
                        [ino |-> heap[Append(ptr, keys[i])].ino,
                         kind |-> IF heap[Append(ptr, keys[i])].kind = "File"
                                    THEN "RegularFile" ELSE "Directory",
                         name |-> keys[i]]]
  IN [k \in 1..Len(all) |->
        [ino |-> all[k].ino, offset |-> k, kind |-> all[k].kind, name |-> all[k].name]]

C11_ReaddirListing ==
  \A r \in OpsOf("readdir") :
    (/\ ResolvesTo(requests[r].ino, "Folder")
     /\ requests[r].offset = 0
     /\ requests[r].cap >= Len(Listing(inode_table.table[requests[r].ino])))
      => requests[r].replies =
           <<ReplyDirectory(Listing(inode_table.table[requests[r].ino]))>>

(***************************************************************************)
(* C12: for every folder and every sink capacity of at least 1, the pages  *)
(* of a listing that starts at offset 0 and goes on from the cookie of the *)
(* last entry of each page add up to the listing of one unpaginated call:  *)
(* at every moment the pages received so far are its beginning, without a  *)
(* gap or a repeat, and once a page comes back empty they are the whole of *)
(* it.  A page that fills the sink stops there and is a success all the    *)
(* same.                                                                   *)
(***************************************************************************)
\* the entries of the pages received so far, in the order of the calls
RECURSIVE PagesUpTo(_)
PagesUpTo(r) ==
  IF r = 0 THEN <<>>
  ELSE PagesUpTo(r - 1)
         \o (IF requests[r].op = "readdir" /\ requests[r].replies # <<>>
               THEN requests[r].replies[1].entries ELSE <<>>)

\* what one readdir(id, 0) into a sink that never fills is answered with
Unpaginated(ptr) ==
  DirEntries(DirFiles(inode_table, ptr), 0, Len(DirFiles(inode_table, ptr)))

C12_PagesAddUp ==
  \A r \in OpsOf("readdir") :
    (ResolvesTo(requests[r].ino, "Folder") /\ requests[r].pc = "done") =>
      LET full == Unpaginated(inode_table.table[requests[r].ino])
          rest == Len(full) - requests[r].offset
      IN /\ requests[r].replies =
              <<ReplyDirectory(SubSeq(full, requests[r].offset + 1,
                                      requests[r].offset + min(requests[r].cap, rest)))>>
         /\ PagesUpTo(r) = SubSeq(full, 1, Len(PagesUpTo(r)))
         /\ requests[r].replies[1].entries = <<>> => PagesUpTo(r) = full

\* a listing of four entries was received in pages of one entry, the fifth
\* page being empty
C12_Witness ==
  \E r \in OpsOf("readdir") :
    /\ ResolvesTo(requests[r].ino, "Folder")
    /\ requests[r].cap = 1
    /\ requests[r].offset = 4
    /\ requests[r].replies = <<ReplyDirectory(<<>>)>>
    /\ Len(PagesUpTo(r)) = 4

(***************************************************************************)
(* C13: lookup_child(id, name) finds a node exactly when id is the id of a *)
(* Folder that has a child under exactly that name, and the node is that   *)
(* child; when id is the id of a File or of no node, or the folder has no  *)
(* such key, the answer is not-found.  Two lookups with the same arguments *)
(* name the same node.                                                     *)
(***************************************************************************)
\* the folder with this id has a child under this key
HasChild(ino, name) ==
  /\ ResolvesTo(ino, "Folder")
  /\ name \in DOMAIN inode_table.heap[inode_table.table[ino]].entries

\* that child
ChildOf(ino, name) == inode_table.heap[Append(inode_table.table[ino], name)]

C13_LookupChild ==
  \A r \in OpsOf("lookup") :
    /\ requests[r].name # NotUtf8 =>
         IF HasChild(requests[r].ino, requests[r].name)
           THEN LET c == ChildOf(requests[r].ino, requests[r].name)
                IN IF c.kind = "Folder"
                     THEN requests[r].replies = <<ReplyEntry(make_folder_attr(c))>>
                     ELSE /\ requests[r].task_ino = c.ino
                          /\ requests[r].replies \in
                               {<<>>, <<ReplyEntry(host_attr(c.ino))>>, <<ReplyError(EIO)>>}
           ELSE requests[r].replies = <<ReplyError(ENOENT)>>
    /\ \A q \in OpsOf("lookup") :
         (requests[q].ino = requests[r].ino /\ requests[q].name = requests[r].name)
           => requests[q].task_ino = requests[r].task_ino

(***************************************************************************)
(* C14: in the table built from a mapping of N nodes the ids are exactly   *)
(* 1..N, no two nodes share one, the root has id 1, the nodes below a      *)
(* folder have the ids that follow the folder's own (pre-order, so every   *)
(* folder has a smaller id than each of its descendants), slot id - 1 of   *)
(* the table holds the node whose id is id, and no request handler changes *)
(* the table or an id.                                                     *)
(***************************************************************************)
Nodes == DOMAIN inode_table.heap

\* q lies below p in the tree
Below(p, q) == Len(p) < Len(q) /\ SubSeq(q, 1, Len(p)) = p

IdsAssigned ==
  LET heap == inode_table.heap
      N == Cardinality(Nodes)
  IN /\ Len(inode_table.table) = N
     /\ {heap[p].ino : p \in Nodes} = 1..N
     /\ \A p, q \in Nodes : heap[p].ino = heap[q].ino => p = q
     /\ heap[inode_table.root].ino = 1
     /\ \A p \in Nodes :
          {heap[q].ino : q \in {d \in Nodes : Below(p, d)}}
            = (heap[p].ino + 1)..(heap[p].ino + Cardinality({d \in Nodes : Below(p, d)}))
     /\ \A p, q \in Nodes : Below(p, q) => heap[p].ino < heap[q].ino
     /\ \A id \in 1..N : heap[inode_table.table[id]].ino = id

C14_IdsAssigned == [](IdsAssigned) /\ [][inode_table' = inode_table]_vars

\* the table of the mapping of depth three, after a listing in two pages
C14_Witness ==
  /\ Cardinality(Nodes) = 6
  /\ inode_table.heap[<<"a", "b", "a">>].ino = 4
  /\ Cardinality(OpsOf("readdir")) >= 2

C16_ClosedBeforeReleaseReply ==
  \A r \in OpsOf("release") :
    requests[r].replies = <<ReplyOk>> => ~files[requests[r].file].open

(***************************************************************************)
(* Opens of the leaves and reads at several offsets and sizes.             *)
(***************************************************************************)
\* largest offset of a read
MaxReadOffset == 2

\* largest size of a read
MaxReadSize == 2

LeafInos == {ino \in 1..Len(inode_table.table) : ResolvesTo(ino, "File")}

ReadNext ==
  \/ \E ino \in LeafInos : Room(MaxReadRequests) /\ Open(ino)
  \/ \E fh \in 1..inner.counter, offset \in 0..MaxReadOffset, size \in 1..MaxReadSize :
       Room(MaxReadRequests) /\ Read(fh, offset, size)
  \/ \E r \in Tasks, ok \in BOOLEAN : OpenFile(r, ok)
  \/ \E r \in Tasks : OpenInsert(r)
  \/ \E r \in Tasks : OpenReply(r)
  \/ \E r \in Tasks : ReadLock(r)
  \/ \E r \in Tasks : ReadFileLock(r)
  \/ \E r \in Tasks, ok \in BOOLEAN : ReadMetadata(r, ok)
  \/ \E r \in Tasks, ok \in BOOLEAN : ReadSeek(r, ok)
  \/ \E r \in Tasks, ok \in BOOLEAN : ReadExact(r, ok)

ReadSpec == Init /\ [][ReadNext]_vars

(***************************************************************************)
(* C17: a read of a registered handle whose file has length L that is      *)
(* answered data carries exactly min(size, max(L - offset, 0)) bytes, the  *)
(* bytes of the file from `offset` on; it is shorter than `size` only when *)
(* fewer bytes are left before the end of the file, also when L - offset   *)
(* is 2^32 or more.                                                        *)
(***************************************************************************)
\* the bytes the claim promises for a read of the file at `target`
ExpectedData(target, offset, size) ==
  LET L == HostLen(target)
      left == IF L - offset < 0 THEN 0 ELSE L - offset
      n == IF size < left THEN size ELSE left
  IN SubSeq(HostContent(target), offset + 1, offset + n)

C17_ReadLength ==
  \A r \in OpsOf("read") :
    (requests[r].replies # <<>> /\ requests[r].replies[1].kind = "data") =>
      requests[r].replies[1].data =
        ExpectedData(files[requests[r].file].target, requests[r].offset, requests[r].size)

(***************************************************************************)
(* C18: the bytes a read on a handle is answered with are those of the     *)
(* file the handle's open named, from the read's own offset and of the     *)
(* read's own size: what the read would get with no other read around.     *)
(* Reads on another handle, of the same leaf or of another one, in any     *)
(* interleaving, change nothing of it.                                     *)
(***************************************************************************)
\* the host file of the leaf an open of `ino` names
TargetOf(ino) == inode_table.heap[inode_table.table[ino]].target

\* what a read alone on a fresh handle of the file at `target` is answered
IsolatedRead(target, offset, size) ==
  SubSeq(HostContent(target), offset + 1,
         offset + read_size(size, HostLen(target), offset))

C18_ReadsIsolated ==
  \A r \in OpsOf("read") :
    (requests[r].replies # <<>> /\ requests[r].replies[1].kind = "data") =>
      \E q \in OpsOf("open") :
        /\ requests[q].replies = <<ReplyOpened(requests[r].fh)>>
        /\ requests[r].replies[1].data =
             IsolatedRead(TargetOf(requests[q].ino), requests[r].offset, requests[r].size)

\* two handles of the same leaf from two opens: a read on one was answered
\* data from offset 1 and left its cursor behind, a read on the other is about
\* to fill its buffer from offset 0
C18_Witness ==
  \E r, q \in OpsOf("read") :
    /\ requests[r].fh # requests[q].fh
    /\ Live(requests[r].fh) /\ Live(requests[q].fh)
    /\ requests[r].file # 0 /\ requests[q].file # 0
    /\ requests[r].file # requests[q].file
    /\ files[requests[r].file].target = files[requests[q].file].target
    /\ requests[r].offset = 1 /\ requests[r].replies # <<>>
    /\ requests[r].replies[1].kind = "data"
    /\ requests[q].offset = 0 /\ requests[q].pc = "read_exact"

(***************************************************************************)
(* C19: no callback waits on the dispatch path.  The step in which the     *)
(* dispatcher hands a request to lookup, getattr, open, read, release or   *)
(* readdir takes no registry lock and no file lock and does no host I/O:   *)
(* it leaves the registry, its lock and the host files as they are.  And   *)
(* as long as the dispatch thread is there and the kernel has a request to *)
(* send, each of the six callbacks can be called and returns, whatever     *)
(* locks the spawned tasks hold.                                           *)
(***************************************************************************)
\* the dispatcher calls a callback in this step
Dispatches == Len(requests') = Len(requests) + 1

CallbacksReturn ==
  /\ ENABLED (\E parent \in Inos, name \in Names : Lookup(parent, name))
  /\ ENABLED (\E ino \in Inos : Getattr(ino))
  /\ ENABLED (\E ino \in Inos : Open(ino))
  /\ ENABLED (\E fh \in Fhs : Read(fh, 0, ReadSize))
  /\ ENABLED (\E fh \in Fhs : Release(fh))
  /\ ENABLED (\E ino \in Inos : Readdir(ino, 0, SinkCap))

C19_DispatchNeverWaits ==
  /\ [][Dispatches => UNCHANGED <<inner, inner_lock, files>>]_vars
  /\ []((CanDispatch /\ Room(MaxRequests)) => CallbacksReturn)

\* a read holds the registry lock and its file's lock across a host seek, and
\* the kernel has a request for the dispatcher
C19_Witness ==
  \E r \in OpsOf("read") :
    /\ inner_lock = r
    /\ requests[r].pc = "read_seek"
    /\ files[requests[r].file].lock = r
    /\ CanDispatch /\ Room(MaxRequests)

(***************************************************************************)
(* C20: resolve(id) and lookup_child(id, name) find nothing for an id      *)
(* outside 1..N, id 0 (which readdir of the root passes in as the root's   *)
(* parent) and the ids above N alike, and never abort: a lookup or a       *)
(* readdir of such an id is answered not-found, and no callback panics.    *)
(***************************************************************************)
C20_OutOfRangeIsAbsent ==
  \A r \in Reqs :
    /\ requests[r].pc # "panicked"
    /\ (/\ requests[r].op \in {"lookup", "readdir"}
        /\ requests[r].name # NotUtf8
        /\ requests[r].ino \notin 1..Len(inode_table.table))
         => requests[r].replies = <<ReplyError(ENOENT)>>

(***************************************************************************)
(* C21: the registry and the counter change in two ways only.  The step in *)
(* which an open succeeds adds one entry under counter + 1 and makes that  *)
(* the counter; the step in which a release finds its handle id removes    *)
(* that entry and nothing else.  Every other step (lookup, getattr,        *)
(* readdir, every read, an open that fails, a release of an unregistered   *)
(* id) leaves both as they are, so an entry stays until it is released.    *)
(***************************************************************************)
\* the open of request r succeeds in this step
OpenSucceeds(r) ==
  /\ requests[r].op = "open" /\ Leaves(r, "open_lock")
  /\ inner'.counter = inner.counter + 1
  /\ inner.counter + 1 \notin DOMAIN inner.file_handles
  /\ DOMAIN inner'.file_handles = DOMAIN inner.file_handles \cup {inner.counter + 1}
  /\ \A h \in DOMAIN inner.file_handles : inner'.file_handles[h] = inner.file_handles[h]
  /\ requests'[r].fh = inner.counter + 1

\* the release of request r finds its handle id in this step
ReleaseSucceeds(r) ==
  /\ requests[r].op = "release" /\ Leaves(r, "release_lock")
  /\ requests[r].fh \in DOMAIN inner.file_handles
  /\ inner'.counter = inner.counter
  /\ DOMAIN inner'.file_handles = DOMAIN inner.file_handles \ {requests[r].fh}
  /\ \A h \in DOMAIN inner'.file_handles : inner'.file_handles[h] = inner.file_handles[h]

\* request r comes to an end other than success in this step, or is not an
\* open or a release at all
OtherOutcome(r) ==
  \/ requests[r].op \in {"lookup", "getattr", "readdir", "read"}
  \/ requests[r].op = "open" /\ ~Leaves(r, "open_lock")
  \/ requests[r].op = "release" /\ requests'[r].file = 0

RegistryFrame ==
  /\ inner' # inner =>
       \E r \in Reqs : OpenSucceeds(r) \/ ReleaseSucceeds(r)
  /\ \A r \in Reqs :
       (requests'[r] # requests[r] /\ OtherOutcome(r)) => inner' = inner
  /\ Dispatches => inner' = inner
  /\ \A h \in DOMAIN inner.file_handles :
       h \in DOMAIN inner'.file_handles
         \/ \E r \in Reqs : ReleaseSucceeds(r) /\ requests[r].fh = h

C21_RegistryFrame == [][RegistryFrame]_vars

\* an open took id 1, a release removed it, and an open of a folder failed:
\* the registry is empty and the counter still 1
C21_Witness ==
  /\ inner.counter = 1 /\ DOMAIN inner.file_handles = {}
  /\ \E r \in OpsOf("open") : requests[r].replies = <<ReplyOpened(1)>>
  /\ \E r \in OpsOf("release") : requests[r].replies = <<ReplyOk>> /\ requests[r].pc = "done"
  /\ \E r \in OpsOf("open") : requests[r].replies = <<ReplyError(OpenFolderErrno)>>

(***************************************************************************)
(* C22: an open inserts its handle before it sends the reply that carries  *)
(* the handle id, in one exclusive section: while the reply is still to be *)
(* sent the entry is there and the task holds the registry lock, and in    *)
(* every state each handle id that an open reply carried and no release    *)
(* removed is registered.  So a read is answered with the bad-handle error *)
(* for an id an open reply carried only after a release took that id out.  *)
(***************************************************************************)
InsertedBeforeReply ==
  /\ \A r \in OpsOf("open") :
       requests[r].pc = "open_reply" =>
         /\ inner_lock = r
         /\ requests[r].replies = <<>>
         /\ contains_key(inner.file_handles, requests[r].fh)
  /\ \A r \in OpsOf("open") :
       (requests[r].replies # <<>> /\ requests[r].replies[1].kind = "opened") =>
         (contains_key(inner.file_handles, requests[r].replies[1].fh)
            \/ Removed(requests[r].replies[1].fh))

ReadAfterOpenReply ==
  \A r \in OpsOf("read") :
    (RepliesNow(r) /\ LastReply(requests'[r]) = ReplyError(ReadMissingErrno)
       /\ Returned(requests[r].fh))
      => Removed(requests[r].fh)

C22_InsertBeforeReply == [](InsertedBeforeReply) /\ [][ReadAfterOpenReply]_vars

\* handle 1 was carried by an open reply and is registered; a read of it that
\* was sent afterwards has found it
C22_Witness ==
  /\ Live(1) /\ contains_key(inner.file_handles, 1)
  /\ \E r \in OpsOf("read") :
       requests[r].fh = 1 /\ requests[r].pc = "read_file_lock"

=============================================================================
